---- MODULE Spec2Model ----
(***************************************************************************)
(* A byte-level model of xs.c: the 16-byte tagged string value (inline or  *)
(* heap layout), the heap buffers with the reference count stored in-band  *)
(* at index size + 1, and the operations xs_new, xs_grow, xs_free, xs_cow, *)
(* xs_concat, xs_trim, xs_copy and xs_tok.                                 *)
(*                                                                         *)
(* Every C function is an operator from a machine state S to the SET of    *)
(* machine states it can end in.  The set has more than one element where  *)
(* the C code's outcome is not fixed by the language: whether realloc      *)
(* moves, the byte read from uninitialised memory, the content of the dead *)
(* stack slot the tokenizer's static pointer `old` refers to, and what     *)
(* lies one byte past a heap buffer.  malloc is first fit.                 *)
(***************************************************************************)
EXTENDS Integers, Sequences, FiniteSets, TLC

VARIABLES
    vals,     \* the string values: slot 0 is the temporary xs_tok(NULL, ..) works on and returns, 1.. are the caller's
    heap,     \* address -> [st: "none" | "live" | "free", mem: bytes of the buffer, then one cell past its end]
    old,      \* xs_tok's `static xs *old`: FALSE is NULL, TRUE points at the slot of a finished call's compound literal
    oldv,     \* the 16 bytes in that slot
    packed,   \* the allocator of the build: TRUE lays equal-sized buffers end to end, FALSE pads every buffer
    ub,       \* the kinds of undefined behaviour the run has gone through
    fault,    \* "none", or why the process has stopped
    last,     \* the call that produced this state, with its arguments
    tk        \* the tokenization under way: source bytes, delimiters, what each call returned

vars == <<vals, heap, old, oldv, packed, ub, fault, last, tk>>

----------------------------------------------------------------------------
(* Bounds of the model *)

\* caller-held string values of the general specifications
NVals == 2
\* heap buffers the allocator can hand out before malloc returns NULL
MaxBuf == 4
\* calls of xs_tok recorded in one tokenization
MaxCalls == 4
\* calls counted in a run; a specification stops at its own number of them
MaxOps == 5
\* calls a program of the general specifications makes
GenOps == 4

Addrs == 1..MaxBuf

----------------------------------------------------------------------------
(* Bytes *)

\* a cell of malloc'ed memory nothing has written yet
POISON == 0 - 1
\* the values a read of such a cell is given
JunkBytes == {0, 1, 2}

Zeros(n) == [k \in 1..n |-> 0]
Fresh(n) == [k \in 1..n |-> POISON]
Rep(n, b) == [k \in 1..n |-> b]
\* memcpy(s + off, b, Len(b)) on a byte sequence, off counted from 0
SeqWrite(s, off, b) ==
    [k \in 1..Len(s) |-> IF k > off /\ k <= off + Len(b) THEN b[k - off] ELSE s[k]]
Min(A) == CHOOSE a \in A : \A b \in A : a <= b
\* the C string starting at offset off of s: [ok, b]; not ok when no terminator
\* is found inside s or an uninitialised cell is met first
CStr(s, off) ==
    LET Z == {k \in (off + 1)..Len(s) : s[k] = 0 \/ s[k] = POISON}
    IN  IF Z = {} \/ off >= Len(s) THEN [ok |-> FALSE, b |-> <<>>]
        ELSE [ok |-> s[Min(Z)] = 0, b |-> SubSeq(s, off + 1, Min(Z) - 1)]

----------------------------------------------------------------------------
(* src/xs.c:8-54 : the representation and its accessors *)

MAX_REF_COUNTER == 255

RECURSIVE FloorLog2(_)
FloorLog2(n) == IF n <= 1 THEN 0 ELSE 1 + FloorLog2(n \div 2)
\* 32 - clz(n) - 1 for the uint32_t n > 0
ilog2(n) == FloorLog2(n)

\* A size_t argument of 64 bits, <<hi, lo>> for hi * 2^32 + lo
SizeT(n) == <<0, n>>
\* its conversion to the uint32_t parameter of ilog2: the low 32 bits
U32(len) == len[2]
\* len <= c, for a c below 2^32
AtMost(len, c) == len[1] = 0 /\ len[2] <= c

\* the class the specification words give: the smallest c with 2^c >= len
RECURSIVE LeastClass(_, _)
LeastClass(len, c) == IF 2 ^ c >= len THEN c ELSE LeastClass(len, c + 1)
CapClassLeast(len) == LeastClass(len, 0)

\* capacity class xs_new and xs_grow allocate for a length
CapClass(len) == ilog2(len) + 1

\* A value in normal form: the fields of the layout that is not active are 0.
\* data is filler[0..14]; byte 15 is space_left (low nibble) and is_ptr (bit 4).
xs_literal_empty ==
    [is_ptr |-> FALSE, data |-> Zeros(15), space_left |-> 15,
     ptr |-> 0, size |-> 0, capacity |-> 0]

xs_is_ptr(x) == x.is_ptr
xs_size(x) == IF xs_is_ptr(x) THEN x.size ELSE 15 - x.space_left
xs_capacity(x) == IF xs_is_ptr(x) THEN (2 ^ x.capacity) - 1 ELSE 15

\* the 16 bytes x->data[0..15] of an inline value
Raw(x) == x.data \o <<x.space_left>>
\* the inline value whose 16 bytes are raw, after space_left = 15 - n
InlineOf(raw, n) ==
    [is_ptr |-> FALSE, data |-> SubSeq(raw, 1, 15), space_left |-> (15 - n) % 16,
     ptr |-> 0, size |-> 0, capacity |-> 0]
HeapOf(a, n, c) ==
    [is_ptr |-> TRUE, data |-> Zeros(15), space_left |-> 0,
     ptr |-> a, size |-> n, capacity |-> c % 64]
\* the size field as it reads once is_ptr is set on what were inline bytes:
\* bits 0..53 of the word at bytes 8..15, i.e. data[8..13] and the low 6 bits
\* of data[14].  A value with a bit set above bit 23 is given as 2^24: it is
\* past the end of every buffer either way.
SizeBits(x) ==
    IF x.data[12] = 0 /\ x.data[13] = 0 /\ x.data[14] = 0 /\ x.data[15] % 64 = 0
    THEN x.data[9] + 256 * x.data[10] + 65536 * x.data[11]
    ELSE 2 ^ 24

----------------------------------------------------------------------------
(* The machine state the C functions work on *)

Machine ==
    [v |-> vals, heap |-> heap, old |-> old, oldv |-> oldv,
     packed |-> packed, ub |-> ub, fault |-> fault]

\* a reference is a slot number, or OLD for the slot `old` points at
OLD == 0 - 1
Refs(S) == (DOMAIN S.v) \cup (IF S.old THEN {OLD} ELSE {})
Get(S, r) == IF r = OLD THEN S.oldv ELSE S.v[r]
Put(S, r, x) == IF r = OLD THEN [S EXCEPT !.oldv = x] ELSE [S EXCEPT !.v[r] = x]

\* the null pointer, as argument and as result of xs_tok
NIL == 0 - 2

Fault(S, why) == IF S.fault = "none" THEN [S EXCEPT !.fault = why] ELSE S
Flag(S, what) == [S EXCEPT !.ub = @ \cup what]

\* run F on every state of SS the process is still alive in
Bind(SS, F(_)) == UNION {IF s.fault = "none" THEN F(s) ELSE {s} : s \in SS}
\* the same where F gives results [s, x] of a call that returns a reference
BindR(SS, F(_)) == UNION {IF s.fault = "none" THEN F(s) ELSE {[s |-> s, x |-> NIL]} : s \in SS}
\* the same for results [s, x] of a call that returns a value
BindX(RR, F(_, _)) == UNION {IF r.s.fault = "none" THEN F(r.s, r.x) ELSE {r.s} : r \in RR}

----------------------------------------------------------------------------
(* malloc, free, realloc and the cells of a buffer *)

AllocLen(S, a) == Len(S.heap[a].mem) - 1

\* the values that point at buffer a
Aliases(S, a) == {r \in Refs(S) : Get(S, r).is_ptr /\ Get(S, r).ptr = a}

\* malloc(n), first fit: the lowest address that is a freed buffer of this
\* size or has not been handed out yet; NULL (0) when the heap is exhausted.
\* A reused buffer keeps the bytes it was freed with.
Malloc(S, n) ==
    LET reuse == {a \in Addrs : S.heap[a].st = "free" /\ Len(S.heap[a].mem) = n + 1}
        unused == {a \in Addrs : S.heap[a].st = "none"}
        a == Min(reuse \cup unused)
    IN  IF reuse \cup unused = {} THEN {[s |-> S, x |-> 0]}
        ELSE {[s |-> [S EXCEPT !.heap[a] =
                        [st |-> "live",
                         mem |-> IF a \in reuse THEN @.mem ELSE Fresh(n + 1)]],
               x |-> a]}

\* free(a), called for the value at reference r
Free(S, a, r) ==
    IF a = 0 THEN S
    ELSE Flag([S EXCEPT !.heap[a].st = "free"],
              (IF S.heap[a].st # "live" THEN {"double_free"} ELSE {})
              \cup (IF Aliases(S, a) \ {r} # {} THEN {"free_aliased"} ELSE {}))

\* where byte i of buffer a is: <<address, index>>, <<0, 0>> when it is
\* further than one byte past the end
Loc(S, a, i) ==
    LET n == AllocLen(S, a)
    IN  IF i < n THEN <<a, i + 1>>
        ELSE IF i = n
             THEN IF S.packed /\ a < MaxBuf /\ Len(S.heap[IF a < MaxBuf THEN a + 1 ELSE a].mem) = n + 1
                  THEN <<a + 1, 1>>
                  ELSE <<a, n + 1>>
        ELSE <<0, 0>>

\* the undefined behaviour in touching byte i of buffer a
Touch(S, a, i) ==
    Flag(S, (IF S.heap[a].st # "live" THEN {"use_after_free"} ELSE {})
            \cup (IF i >= AllocLen(S, a) THEN {"out_of_bounds"} ELSE {}))

----------------------------------------------------------------------------
(* src/xs.c:49-50 : xs_ref_counter(x), the byte at x->ptr + x->size + 1 *)

\* the states in which the counter of x can be read: its cell holds a byte
RcSettle(S, x) ==
    IF x.ptr = 0 THEN {Fault(S, "null_deref")}
    ELSE LET c == Loc(S, x.ptr, x.size + 1)
             T == Touch(S, x.ptr, x.size + 1)
         IN  IF c[1] = 0 THEN {Fault(T, "wild_access")}
             ELSE IF S.heap[c[1]].mem[c[2]] = POISON
                  THEN {Flag([T EXCEPT !.heap[c[1]].mem[c[2]] = j], {"uninit_read"}) : j \in JunkBytes}
                  ELSE {T}

xs_ref_counter(S, x) ==
    LET c == Loc(S, x.ptr, x.size + 1) IN S.heap[c[1]].mem[c[2]]

\* xs_ref_counter(x) = b
RcStore(S, x, b) ==
    IF x.ptr = 0 THEN Fault(S, "null_deref")
    ELSE LET c == Loc(S, x.ptr, x.size + 1)
             T == Touch(S, x.ptr, x.size + 1)
         IN  IF c[1] = 0 THEN Fault(T, "wild_access")
             ELSE [T EXCEPT !.heap[c[1]].mem[c[2]] = b % 256]

\* xs_ref_counter(x) += d, in a state RcSettle gave
RcAdd(S, x, d) ==
    LET n == xs_ref_counter(S, x)
    IN  RcStore(Flag(S, IF n + d < 0 THEN {"count_below_zero"} ELSE {}), x, n + d)

----------------------------------------------------------------------------
(* src/xs.c:56-76 : xs_new and xs_tmp *)

\* xs_new(x, p) for p pointing at the given bytes, a zero byte after them:
\* the results [s, x]
xs_new(S, bytes) ==
    \* strlen(p) stops at the first zero byte of what p points at
    LET p == CStr(bytes \o <<0>>, 0).b
        len == Len(p) + 1
    IN  IF len > 16
        THEN LET c == CapClass(len)
             IN  {IF m.x = 0
                  THEN [s |-> Fault(m.s, "null_deref"), x |-> xs_literal_empty]
                  ELSE LET x == HeapOf(m.x, len - 1, c)
                           W == [m.s EXCEPT !.heap[m.x].mem = SeqWrite(@, 0, p \o <<0>>)]
                       IN  [s |-> RcStore(W, x, 1), x |-> x]
                  : m \in Malloc(S, 2 ^ c)}
        ELSE {[s |-> S, x |-> InlineOf(SeqWrite(Raw(xs_literal_empty), 0, p \o <<0>>), len - 1)]}

\* the bytes x->data .. of a value: the heap buffer, or the 16 inline bytes
Data(S, x) ==
    IF x.is_ptr THEN SubSeq(S.heap[x.ptr].mem, 1, AllocLen(S, x.ptr)) ELSE Raw(x)

\* write the bytes d back through reference r and set the size to n
Store(S, r, x, d, n) ==
    IF x.is_ptr
    THEN Put([S EXCEPT !.heap[x.ptr].mem = SeqWrite(@, 0, d)], r,
             [x EXCEPT !.size = n])
    ELSE Put(S, r, InlineOf(d, n))

\* the state in which bytes 0..n-1 of x can be accessed, or the fault
Reach(S, x, n) ==
    IF ~x.is_ptr THEN (IF n <= 16 THEN S ELSE Fault(S, "wild_access"))
    ELSE IF x.ptr = 0 THEN Fault(S, "null_deref")
    ELSE IF n > AllocLen(S, x.ptr) THEN Fault(Touch(S, x.ptr, n - 1), "wild_access")
    ELSE Touch(S, x.ptr, 0)

\* realloc(a, n) for the value at reference r: the results [s, x]
Realloc(S, a, n, r) ==
    IF a = 0 THEN Malloc(S, n)
    ELSE LET m == SubSeq(S.heap[a].mem, 1, AllocLen(S, a))
             keep == IF Len(m) <= n THEN m ELSE SubSeq(m, 1, n)
             inplace ==
                 IF S.packed \/ S.heap[a].st # "live" THEN {}
                 ELSE {[s |-> [S EXCEPT !.heap[a].mem = SeqWrite(Fresh(n + 1), 0, keep)], x |-> a]}
             moved ==
                 {IF k.x = 0 THEN k
                  ELSE [s |-> Free([k.s EXCEPT !.heap[k.x].mem = SeqWrite(@, 0, keep)], a, r),
                        x |-> k.x]
                  : k \in Malloc(S, n)}
         IN  inplace \cup moved

----------------------------------------------------------------------------
(* src/xs.c:78-95 : xs_grow *)

\* xs_grow(x, len) on the 16 bytes x, held at reference r: the results [s, x]
xs_grow(S, x, len, r) ==
    LET c == CapClass(U32(len))
    IN  IF AtMost(len, xs_capacity(x)) THEN {[s |-> S, x |-> x]}
        ELSE IF xs_is_ptr(x)
        THEN {[s |-> k.s, x |-> [x EXCEPT !.ptr = k.x, !.capacity = c % 64]]
              : k \in Realloc(S, x.ptr, 2 ^ c, r)}
        ELSE {IF k.x = 0 THEN [s |-> Fault(k.s, "null_deref"), x |-> x]
              ELSE [s |-> [k.s EXCEPT !.heap[k.x].mem = SeqWrite(@, 0, Raw(x))],
                    x |-> HeapOf(k.x, SizeBits(x), c)]
              : k \in Malloc(S, 2 ^ c)}

----------------------------------------------------------------------------
(* src/xs.c:97-108 : xs_newempty and xs_free *)

xs_free(S, r) ==
    LET x == Get(S, r)
    IN  Put(IF xs_is_ptr(x) THEN Free(S, x.ptr, r) ELSE S, r, xs_literal_empty)

----------------------------------------------------------------------------
(* src/xs.c:110-116 : xs_cow *)

xs_cow(S, r) ==
    LET x == Get(S, r)
    IN  Bind(RcSettle(S, x), LAMBDA A :
          LET B == RcAdd(A, x, 0 - 1)
              p == CStr(Data(B, x), 0)
          IN  IF ~p.ok THEN {Fault(B, "wild_access")}
              ELSE {Put(k.s, r, k.x) : k \in xs_new(B, p.b)})

\* the guard of every call of xs_cow: xs_is_ptr(x) && xs_ref_counter(x) != 1
Shared(S, x) == xs_is_ptr(x) /\ xs_ref_counter(S, x) # 1

\* if (xs_is_ptr(x) && xs_ref_counter(x) != 1) xs_cow(x);
CowIfShared(S, r) ==
    LET x == Get(S, r)
    IN  IF ~xs_is_ptr(x) THEN {S}
        ELSE Bind(RcSettle(S, x), LAMBDA A : IF Shared(A, x) THEN xs_cow(A, r) ELSE {A})

----------------------------------------------------------------------------
(* src/xs.c:201-223 : xs_copy, for non-null dest and src *)

\* a counter that is never taken as saturated
NeverSaturated(n) == FALSE

\* (unsigned char) xs_ref_counter(src) == MAX_REF_COUNTER
Saturated(n) == n = MAX_REF_COUNTER

\* lines 205-209: dest gives up the buffer it holds
DropDest(S, d) ==
    LET x == Get(S, d)
    IN  IF ~xs_is_ptr(x) THEN {S}
        ELSE Bind(RcSettle(S, x), LAMBDA A :
               LET B == RcAdd(A, x, 0 - 1)
               IN  {IF B.fault = "none" /\ xs_ref_counter(B, x) = 0
                    THEN Free(B, x.ptr, d) ELSE B})

\* xs_copy(dest, src) with dest the reference d and src holding the 16 bytes sv
xs_copy(S, d, sv) ==
    Bind(DropDest(S, d), LAMBDA A :
      IF ~xs_is_ptr(sv) THEN {Put(A, d, sv)}
      ELSE Bind(RcSettle(A, sv), LAMBDA B :
             IF Saturated(xs_ref_counter(B, sv))
             THEN LET p == CStr(Data(B, sv), 0)
                  IN  IF ~p.ok THEN {Fault(B, "wild_access")}
                      ELSE {Put(k.s, d, k.x) : k \in xs_new(B, p.b)}
             ELSE {RcAdd(Put(B, d, sv), sv, 1)}))

----------------------------------------------------------------------------
(* src/xs.c:118-151 : xs_concat; prefix and suffix are read through xs_size *)
(* and xs_data only, so they are given as their bytes                      *)

\* what the three copies of either branch leave in the destination bytes d,
\* the string's own bytes being own
Assemble(d, pre, own, suf) ==
    SeqWrite(SeqWrite(SeqWrite(d, Len(pre), own), 0, pre),
             Len(pre) + Len(own), suf \o <<0>>)

xs_concat(S, r, pre, suf) ==
    Bind(CowIfShared(S, r), LAMBDA A :
      LET x == Get(A, r)
          size == xs_size(x)
          capacity == xs_capacity(x)
          total == size + Len(pre) + Len(suf)
      IN  IF total <= capacity
          THEN LET R == Reach(A, x, total + 1)
                   d == Data(R, x)
                   B == Store(R, r, x, Assemble(d, pre, SubSeq(d, 1, size), suf), total)
               IN  IF R.fault # "none" THEN {R}
                   ELSE {IF xs_is_ptr(x) THEN RcStore(B, Get(B, r), 1) ELSE B}
          ELSE LET R == Reach(A, x, size)
               IN  IF R.fault # "none" THEN {R}
                   ELSE BindX(xs_grow(R, xs_literal_empty, SizeT(total), r), LAMBDA G, tmps :
                          LET own == SubSeq(Data(G, x), 1, size)
                              W == [G EXCEPT !.heap[tmps.ptr].mem = Assemble(@, pre, own, suf)]
                              string == [tmps EXCEPT !.size = total]
                              B == Put(xs_free(W, r), r, string)
                          IN  {IF xs_is_ptr(string) THEN RcStore(B, string, 1) ELSE B}))

----------------------------------------------------------------------------
(* src/xs.c:153-199 : xs_trim *)

\* check_bit(b) after set_bit of every byte of the set
InSet(b, set) == \E k \in 1..Len(set) : set[k] = b

\* a leading scan that gives up after one byte
SkipOneLead(d, n, set) ==
    IF n > 0 /\ InSet(d[1], set) THEN 1 ELSE 0

\* for (i = 0; i < n; i++) if (!check_bit(d[i])) break;
SkipLead(d, n, set) ==
    Min({i \in 0..n : i = n \/ ~InSet(d[i + 1], set)})
\* for (; n > 0; n--) if (!check_bit(d[n - 1])) break;
SkipTrail(d, n, set) ==
    n - Min({j \in 0..n : j = n \/ ~InSet(d[n - j], set)})

xs_trim(S, r, trimset) ==
    IF trimset = <<>> THEN {S}
    ELSE Bind(CowIfShared(S, r), LAMBDA A :
      LET x == Get(A, r)
          R == Reach(A, x, xs_size(x) + 1)
          d == Data(R, x)
          i == SkipLead(d, xs_size(x), trimset)
          slen == SkipTrail(d, xs_size(x), trimset) - i
          moved == SeqWrite(d, 0, SubSeq(d, i + 1, i + slen))
          B == Store(R, r, x,
                     IF moved[slen + 1] # 0 THEN SeqWrite(moved, slen, <<0>>) ELSE moved,
                     slen)
      IN  IF R.fault # "none" THEN {R}
          \* slen -= i wraps below zero to a size_t near 2^64: memmove runs off the memory
          ELSE IF slen < 0 THEN {Fault(R, "wild_access")}
          ELSE {IF xs_is_ptr(x) THEN RcStore(B, Get(B, r), 1) ELSE B})

----------------------------------------------------------------------------
(* src/xs.c:225-298 : xs_tok *)

\* What the slot `old` points at can hold when a later call reads it.  The
\* slot is a compound literal of a call that has returned (lines 230, 287):
\* it keeps its 16 bytes, or the frames of the calls made since have left
\* other bytes there, here those of a short inline string.
StaleSlot == {InlineOf(SeqWrite(Raw(xs_literal_empty), 0, <<120, 0>>), 1)}
DeadSlot(S) ==
    IF S.old THEN {[S EXCEPT !.oldv = w] : w \in {S.oldv} \cup StaleSlot} ELSE {S}

\* xs_copy(old, src): returns at line 203 when old is NULL
CopyToOld(S, sv) ==
    IF S.old THEN xs_copy(Flag(S, {"dangling_pointer"}), OLD, sv) ELSE {S}

\* lines 229-230: the string the call works on, [s, x] with x its reference
TokEntry(S, xr) ==
    IF xr # NIL THEN {[s |-> S, x |-> xr]}
    ELSE LET T == Put(S, 0, xs_literal_empty)
         IN  IF T.old
             THEN {[s |-> k, x |-> 0] : k \in xs_copy(Flag(T, {"dangling_pointer"}), 0, T.oldv)}
             ELSE {[s |-> T, x |-> 0]}

\* lines 238-298, the delimiters being non-empty: the results [s, x], x the
\* reference returned or NIL
TokScan(S, r, delim) ==
    BindR(CowIfShared(S, r), LAMBDA A :
      LET x == Get(A, r)
          R == Reach(A, x, xs_size(x) + 1)
          d == Data(R, x)
          i == SkipLead(d, xs_size(x), delim)
          xlen == xs_size(x) - i
          \* lines 258-264
          d1 == SeqWrite(SeqWrite(d, 0, SubSeq(d, i + 1, i + xlen)), xlen, <<0>>)
          B == Store(R, r, x, d1, xlen)
          y == Get(B, r)
          \* lines 273-277
          n == Min({j \in 0..xlen : j = xlen \/ InSet(d1[j + 1], delim)})
          \* lines 286-287
          d2 == SeqWrite(d1, n, <<0>>)
          rest == CStr(d2, n + 1)
      IN  IF R.fault # "none" THEN {[s |-> R, x |-> NIL]}
          ELSE IF d1[1] = 0
          THEN {[s |-> IF xs_is_ptr(y) THEN RcStore(k, y, 1) ELSE k, x |-> NIL]
                : k \in CopyToOld(B, y)}
          ELSE IF d1[n + 1] = 0
          THEN {[s |-> IF xs_is_ptr(y) THEN RcStore(k, y, 1) ELSE k, x |-> r]
                : k \in CopyToOld(B, xs_literal_empty)}
          ELSE IF ~rest.ok THEN {[s |-> Fault(B, "wild_access"), x |-> NIL]}
          ELSE {LET C == [k.s EXCEPT !.old = TRUE, !.oldv = k.x]
                    \* lines 288-292
                    z == IF xs_is_ptr(y) THEN [y EXCEPT !.size = n] ELSE InlineOf(d2, n)
                IN  [s |-> IF k.s.fault # "none" THEN k.s
                           ELSE IF xs_is_ptr(y) THEN RcStore(Put(C, r, z), z, 1)
                           ELSE Put(C, r, z),
                     x |-> r]
                : k \in xs_new(Store(B, r, y, d2, xlen), rest.b)})

\* lines 229-237, then the scan: the results [s, x]
TokBody(S, xr, delim) ==
    UNION {UNION {
        IF e.s.fault # "none" THEN {[s |-> e.s, x |-> NIL]}
        \* line 231 compares the pointer xs_data(x), not the byte it points at
        ELSE IF xs_is_ptr(Get(e.s, e.x)) /\ Get(e.s, e.x).ptr = 0
        THEN {[s |-> k, x |-> NIL] : k \in CopyToOld(e.s, Get(e.s, e.x))}
        ELSE IF delim = <<>> THEN {e}
        ELSE TokScan(e.s, e.x, delim)
        : e \in TokEntry(D, xr)} : D \in DeadSlot(S)}

\* xs_tok(x, delim) with x the reference xr or NIL: the results [s, x].
\* The temporary of line 230 ends with the call; when NULL is returned no
\* pointer to it is left, and slot 0 is given back empty.
xs_tok(S, xr, delim) ==
    {IF xr = NIL /\ k.x = NIL /\ k.s.fault = "none"
     THEN [s |-> Put(k.s, 0, xs_literal_empty), x |-> NIL] ELSE k
     : k \in TokBody(S, xr, delim)}

----------------------------------------------------------------------------
(* What a caller observes of a value *)

\* the xs_size(x) bytes at xs_data(x); <<POISON>> when they are not all there
Bytes(S, x) ==
    IF ~xs_is_ptr(x) THEN SubSeq(Raw(x), 1, xs_size(x))
    ELSE IF x.ptr = 0 \/ x.size >= AllocLen(S, x.ptr) THEN <<POISON>>
    ELSE SubSeq(S.heap[x.ptr].mem, 1, x.size)

\* what xs_tok returned: the token's bytes, or NoToken for NULL
NoToken == <<POISON>>
Returned(k) == IF k.x = NIL THEN NoToken ELSE Bytes(k.s, Get(k.s, k.x))

----------------------------------------------------------------------------
(* The calls a program makes *)

\* the call, and how many calls the program has made with it
Call(op, a, b, p, q) ==
    [op |-> op, a |-> a, b |-> b, p |-> p, q |-> q,
     n |-> IF last.n < MaxOps THEN last.n + 1 ELSE MaxOps,
     \* 2 when the call before was this same call, 1 otherwise
     rep |-> IF last.op = op /\ last.a = a /\ last.b = b /\ last.p = p /\ last.q = q
             THEN 2 ELSE 1]

Done(S, c) ==
    /\ vals' = S.v
    /\ heap' = S.heap
    /\ old' = S.old
    /\ oldv' = S.oldv
    /\ packed' = S.packed
    /\ ub' = S.ub
    /\ fault' = S.fault
    /\ last' = c

Alive == fault = "none"

\* xs_new(&v[i], p); the storage v[i] holds no heap string the call would drop
Construct(i, p) ==
    /\ Alive
    /\ ~xs_is_ptr(vals[i])
    /\ \E k \in xs_new(Machine, p) : Done(Put(k.s, i, k.x), Call("new", i, 0, p, <<>>))
    /\ UNCHANGED tk

\* xs_copy(&v[d], &v[s])
Assign(d, s) ==
    /\ Alive
    /\ \E k \in xs_copy(Machine, d, vals[s]) : Done(k, Call("copy", d, s, <<>>, <<>>))
    /\ UNCHANGED tk

\* xs_grow(&v[i], n)
Grow(i, n) ==
    /\ Alive
    /\ \E k \in xs_grow(Machine, vals[i], SizeT(n), i) :
          Done(Put(k.s, i, k.x), Call("grow", i, n, <<>>, <<>>))
    /\ UNCHANGED tk

\* xs_grow(&v[i], h * 2^32 + n) for an h > 0
GrowWide(i, h, n) ==
    /\ Alive
    /\ \E k \in xs_grow(Machine, vals[i], <<h, n>>, i) :
          Done(Put(k.s, i, k.x), Call("grow", i, n, <<h>>, <<>>))
    /\ UNCHANGED tk

\* xs_free(&v[i])
Release(i) ==
    /\ Alive
    /\ Done(xs_free(Machine, i), Call("free", i, 0, <<>>, <<>>))
    /\ UNCHANGED tk

\* xs_cow(&v[i]) under the guard of its call sites
EnsureExclusive(i) ==
    /\ Alive
    /\ xs_is_ptr(vals[i])
    /\ \E k \in CowIfShared(Machine, i) : Done(k, Call("cow", i, 0, <<>>, <<>>))
    /\ UNCHANGED tk

\* xs_concat(&v[i], xs_tmp(p), xs_tmp(q))
Concat(i, p, q) ==
    /\ Alive
    /\ \E k \in xs_concat(Machine, i, p, q) : Done(k, Call("concat", i, 0, p, q))
    /\ UNCHANGED tk

\* xs_trim(&v[i], t)
Trim(i, t) ==
    /\ Alive
    /\ \E k \in xs_trim(Machine, i, t) : Done(k, Call("trim", i, 0, t, <<>>))
    /\ UNCHANGED tk

\* xs_tok(&v[i], d): a tokenization starts
Tok(i, d) ==
    /\ Alive
    /\ \E k \in xs_tok(Machine, i, d) :
          /\ Done(k.s, Call("tok", i, 0, d, <<>>))
          /\ tk' = [src |-> Bytes(Machine, vals[i]), delim |-> d,
                    log |-> IF k.s.fault = "none" THEN <<Returned(k)>> ELSE <<>>]

\* xs_tok(NULL, d): the tokenization goes on, with the delimiters it started
\* with; the caller has released the token it was given before
TokNext ==
    /\ Alive
    /\ tk.log # <<>>
    /\ ~xs_is_ptr(vals[0])
    /\ Len(tk.log) < MaxCalls
    /\ \E k \in xs_tok(Machine, NIL, tk.delim) :
          /\ Done(k.s, Call("tok", NIL, 0, tk.delim, <<>>))
          /\ tk' = [tk EXCEPT !.log = IF k.s.fault = "none" THEN Append(@, Returned(k)) ELSE @]

----------------------------------------------------------------------------
(* The general specification: every call, on small inputs *)

Slots == 1..NVals

Init ==
    /\ vals = [i \in 0..NVals |-> xs_literal_empty]
    /\ heap = [a \in Addrs |-> [st |-> "none", mem |-> <<>>]]
    /\ old = FALSE
    /\ oldv = xs_literal_empty
    /\ packed \in BOOLEAN
    /\ ub = {}
    /\ fault = "none"
    /\ last = [op |-> "init", a |-> 0, b |-> 0, p |-> <<>>, q |-> <<>>, n |-> 0, rep |-> 1]
    /\ tk = [src |-> <<>>, delim |-> <<>>, log |-> <<>>]

MachineP ==
    [v |-> vals', heap |-> heap', old |-> old', oldv |-> oldv',
     packed |-> packed', ub |-> ub', fault |-> fault']

\* "a,b", and a heap string of 30 bytes: "a,b," then 25 times "c" then ","
Lits == {<<97, 44, 98>>, <<97, 44, 98, 44>> \o Rep(25, 99) \o <<44>>}
Delims == {<<44>>}

\* a program has made fewer than k calls
Within(k) == last.n < k

\* the calls that leave the memory to the strings: no xs_grow, no xs_free
NextCore ==
    \/ \E i \in Slots, p \in Lits : Within(GenOps) /\ Construct(i, p)
    \/ \E d \in Slots, s \in Slots : Within(GenOps) /\ Assign(d, s)
    \/ \E i \in Slots : Within(GenOps) /\ EnsureExclusive(i)
    \/ \E i \in Slots : Within(GenOps) /\ Concat(i, <<>>, <<98>>)
    \/ \E i \in Slots, t \in Delims : Within(GenOps) /\ Trim(i, t)
    \/ \E i \in Slots, d \in Delims : Within(GenOps) /\ Tok(i, d)
    \/ Within(GenOps) /\ TokNext

SpecCore == Init /\ [][NextCore]_vars

\* every call of the library
Next ==
    \/ \E i \in Slots, p \in Lits : Within(GenOps) /\ Construct(i, p)
    \/ \E d \in Slots, s \in Slots : Within(GenOps) /\ Assign(d, s)
    \/ \E i \in Slots : Within(GenOps) /\ Grow(i, 40)
    \/ \E i \in 0..NVals : Within(GenOps) /\ Release(i)
    \/ \E i \in Slots : Within(GenOps) /\ EnsureExclusive(i)
    \/ \E i \in Slots : Within(GenOps) /\ Concat(i, <<>>, <<98>>)
    \/ \E i \in Slots, t \in Delims : Within(GenOps) /\ Trim(i, t)
    \/ \E i \in Slots, d \in Delims : Within(GenOps) /\ Tok(i, d)
    \/ Within(GenOps) /\ TokNext

Spec == Init /\ [][Next]_vars

----------------------------------------------------------------------------
(* Copy-on-write isolation, the count of a buffer, the releases             *)

\* x points at a live buffer and its counter is a byte of that buffer
Counted(S, x) ==
    /\ xs_is_ptr(x) /\ x.ptr \in Addrs
    /\ S.heap[x.ptr].st = "live"
    /\ x.size + 1 < AllocLen(S, x.ptr)
    /\ xs_ref_counter(S, x) # POISON

\* r and j hold the same live heap buffer, shared as xs_copy shares it: the
\* stored count is the number of values at the buffer
SharesWith(S, r, j) ==
    /\ xs_is_ptr(Get(S, r)) /\ xs_is_ptr(Get(S, j))
    /\ Get(S, r).ptr = Get(S, j).ptr
    /\ Get(S, r).ptr \in Addrs
    /\ S.heap[Get(S, r).ptr].st = "live"
    /\ Get(S, r).size = Get(S, j).size
    /\ Counted(S, Get(S, r))
    /\ xs_ref_counter(S, Get(S, r)) = Cardinality(Aliases(S, Get(S, r).ptr))

\* C1: when two strings share one heap buffer through assign, a concat, trim
\* or next_token applied to one of them leaves the size and the bytes of the
\* other as they were.
C1_CowIsolation ==
    [][(last'.op \in {"concat", "trim", "tok"} /\ last'.a \in Slots /\ fault' = "none")
       => \A j \in Slots \ {last'.a} :
            SharesWith(Machine, last'.a, j)
            => /\ xs_size(vals'[j]) = xs_size(vals[j])
               /\ Bytes(MachineP, vals'[j]) = Bytes(Machine, vals[j])]_vars

\* the buffers a value of the program points at have the count of their values
CountIsAliases(S) ==
    \A r \in Refs(S) :
        (xs_is_ptr(Get(S, r)) /\ Get(S, r).ptr \in Addrs
            /\ S.heap[Get(S, r).ptr].st = "live")
        => /\ Loc(S, Get(S, r).ptr, Get(S, r).size + 1)[1] # 0
           /\ xs_ref_counter(S, Get(S, r)) = Cardinality(Aliases(S, Get(S, r).ptr))

\* a live buffer has a value pointing at it: a count of 0 is a freed buffer
NoneLost(S) == \A a \in Addrs : S.heap[a].st = "live" => Aliases(S, a) # {}

\* C3: after any sequence of construct, assign, ensure_exclusive, concat, trim
\* and next_token calls, the count stored in each live heap buffer is the
\* number of values pointing at it, the tokenizer's remainder included.
C3_CountIsAliases == Alive => (CountIsAliases(Machine) /\ NoneLost(Machine))

\* C5: under any sequence of calls a heap buffer is freed at most once and
\* only when its count reaches zero: never while another value still points
\* at it, never twice.
C5_FreeDiscipline ==
    ub \cap {"free_aliased", "double_free"} = {}

----------------------------------------------------------------------------
(* Sharing by assign *)

ShareOps == 4

NextShare ==
    \/ \E i \in Slots, p \in Lits : Within(ShareOps) /\ Construct(i, p)
    \/ \E d \in Slots, s \in Slots : Within(ShareOps) /\ Assign(d, s)

SpecShare == Init /\ [][NextShare]_vars

\* C2: after assign(dest, src) with src heap and its count below 255, dest and
\* src are the same buffer, a live one, its stored count is the number of
\* values at it, and the buffer dest held before is freed exactly if dest was
\* the last value at it.
C2_AssignShares ==
    [][(last'.op = "copy" /\ fault' = "none"
        /\ Counted(Machine, vals[last'.b])
        /\ xs_ref_counter(Machine, vals[last'.b]) < MAX_REF_COUNTER)
       => LET d == last'.a
              s == last'.b
              B == vals[s].ptr
          IN  /\ vals'[s] = vals[s]
              /\ xs_is_ptr(vals'[d]) /\ vals'[d].ptr = B
              /\ heap'[B].st = "live"
              /\ xs_ref_counter(MachineP, vals'[s]) = Cardinality(Aliases(MachineP, B))
              /\ (Counted(Machine, vals[d]) /\ vals[d].ptr # B)
                 => (heap'[vals[d].ptr].st = "free"
                     <=> xs_ref_counter(Machine, vals[d]) = 1)]_vars

----------------------------------------------------------------------------
(* Construction *)

\* the longest payload constructed, and the calls of a run
MaxNewLen == 64
NewOps == 1

NewLits == {Rep(n, 97) : n \in 0..MaxNewLen}

NextNew ==
    \/ \E i \in Slots, p \in NewLits : Within(NewOps) /\ Construct(i, p)

SpecNew == Init /\ [][NextNew]_vars

\* k is the smallest class whose capacity 2^k - 1 satisfies Fits
LeastWith(k, Fits(_)) ==
    /\ Fits((2 ^ k) - 1)
    /\ \A j \in 0..(k - 1) : ~Fits((2 ^ j) - 1)

\* what construct(b) gave for a payload of length L, the capacity being the
\* least 2^k - 1 that satisfies Fits
Constructed(Fits(_)) ==
    (last.op = "new" /\ Alive)
    => LET L == Len(last.p)
           x == vals[last.a]
       IN  /\ xs_size(x) = L
           /\ Bytes(Machine, x) = last.p
           /\ L <= 15 => ~xs_is_ptr(x)
           /\ L >= 16 => /\ xs_is_ptr(x)
                         /\ \E k \in 0..30 : /\ xs_capacity(x) = (2 ^ k) - 1
                                             /\ LeastWith(k, Fits)
                         /\ Counted(Machine, x)
                         /\ xs_ref_counter(Machine, x) = 1

----------------------------------------------------------------------------
(* Trimming *)

TrimOps == 3

\* "", ",a,", ",,", and the heap strings ",a" sixteen "b" "," and sixteen ","
TrimLits ==
    {<<>>, <<44, 97, 44>>, <<44, 44>>,
     <<44, 97>> \o Rep(16, 98) \o <<44>>, Rep(16, 44)}
TrimSets == {<<44>>, <<44, 97>>}

NextTrim ==
    \/ \E i \in Slots, p \in TrimLits : Within(TrimOps) /\ Construct(i, p)
    \/ \E d \in Slots, s \in Slots : Within(TrimOps) /\ Assign(d, s)
    \/ \E i \in Slots, t \in TrimSets : Within(TrimOps) /\ Trim(i, t)

SpecTrim == Init /\ [][NextTrim]_vars

\* b without its longest leading run, its longest trailing run of members of T
RECURSIVE DropLead(_, _)
DropLead(b, T) ==
    IF b # <<>> /\ InSet(Head(b), T) THEN DropLead(Tail(b), T) ELSE b
RECURSIVE DropTrail(_, _)
DropTrail(b, T) ==
    IF b # <<>> /\ InSet(b[Len(b)], T) THEN DropTrail(SubSeq(b, 1, Len(b) - 1), T) ELSE b
Strip(b, T) == DropTrail(DropLead(b, T), T)

\* C6: for every string s and every non-empty trim set T, trim(s, T) ends
\* with s holding the bytes of s without its longest leading and trailing runs
\* of members of T, size(s) the length of that span (0 when every byte is in
\* T), and capacity and layout as before.
C6_TrimStrips ==
    [][(last'.op = "trim" /\ last'.p # <<>>)
       => LET x == vals[last'.a]
              y == vals'[last'.a]
              b == Strip(Bytes(Machine, x), last'.p)
          IN  /\ fault' = "none"
              /\ Bytes(MachineP, y) = b
              /\ xs_size(y) = Len(b)
              /\ xs_size(y) <= xs_size(x)
              /\ xs_capacity(y) = xs_capacity(x)
              /\ xs_is_ptr(y) = xs_is_ptr(x)]_vars

----------------------------------------------------------------------------
(* Concatenation *)

ConcatOps == 3

\* "abc" and a heap string of sixteen "a"
ConcatLits == {<<97, 98, 99>>, Rep(16, 97)}
\* prefix and suffix: both empty, or five "b" and ten "c"
ConcatAffixes == {<<<<>>, <<>>>>, <<Rep(5, 98), Rep(10, 99)>>}

NextConcat ==
    \/ \E i \in Slots, p \in ConcatLits : Within(ConcatOps) /\ Construct(i, p)
    \/ \E d \in Slots, s \in Slots : Within(ConcatOps) /\ Assign(d, s)
    \/ \E i \in Slots : Within(ConcatOps) /\ Grow(i, 40)
    \/ \E i \in Slots, f \in ConcatAffixes : Within(ConcatOps) /\ Concat(i, f[1], f[2])

SpecConcat == Init /\ [][NextConcat]_vars

\* C7: after concat(s, prefix, suffix) the bytes of s are the bytes of prefix,
\* then the bytes s had, then the bytes of suffix, and size(s) is the sum of
\* the three sizes; concat(x, "", "") leaves size and bytes of x as they were.
C7_ConcatBytes ==
    [][(last'.op = "concat" /\ fault' = "none")
       => LET x == vals[last'.a]
              y == vals'[last'.a]
          IN  /\ Bytes(MachineP, y) = last'.p \o Bytes(Machine, x) \o last'.q
              /\ xs_size(y) = Len(last'.p) + xs_size(x) + Len(last'.q)]_vars

----------------------------------------------------------------------------
(* Saturation of the counter *)

\* the values of a program that shares one buffer up to the ceiling
SatVals == 257
SatSlots == 1..SatVals

InitSat ==
    /\ vals = [i \in 0..SatVals |-> xs_literal_empty]
    /\ heap = [a \in Addrs |-> [st |-> "none", mem |-> <<>>]]
    /\ old = FALSE
    /\ oldv = xs_literal_empty
    /\ packed \in BOOLEAN
    /\ ub = {}
    /\ fault = "none"
    /\ last = [op |-> "init", a |-> 0, b |-> 0, p |-> <<>>, q |-> <<>>, n |-> 0, rep |-> 1]
    /\ tk = [src |-> <<>>, delim |-> <<>>, log |-> <<>>]

\* the first value that holds no heap string
FirstFree == Min({i \in SatSlots : ~xs_is_ptr(vals[i])})

\* v[1] is constructed as sixteen "a"; it is assigned to the next unused value,
\* to v[2] again, and to itself
NextSat ==
    \/ Construct(1, Rep(16, 97))
    \/ {i \in SatSlots : ~xs_is_ptr(vals[i])} # {} /\ Assign(FirstFree, 1)
    \/ Assign(2, 1)
    \/ Assign(1, 1)

SpecSat == InitSat /\ [][NextSat]_vars

\* the case of an assign whose src holds a live buffer with count 255
AtCeiling ==
    /\ last'.op = "copy" /\ fault' = "none"
    /\ Counted(Machine, vals[last'.b])
    /\ xs_ref_counter(Machine, vals[last'.b]) = MAX_REF_COUNTER

\* src keeps its count of 255 and dest is a deep copy in a buffer of its own
DeepCopied ==
    LET d == vals'[last'.a]
        s == vals[last'.b]
    IN  /\ vals'[last'.b] = s
        /\ Counted(MachineP, s)
        /\ xs_ref_counter(MachineP, s) = MAX_REF_COUNTER
        /\ xs_size(d) = xs_size(s)
        /\ Bytes(MachineP, d) = Bytes(Machine, s)
        /\ xs_is_ptr(d) => /\ d.ptr # s.ptr
                           /\ Counted(MachineP, d)
                           /\ xs_ref_counter(MachineP, d) = 1

\* a count of 255 is not incremented: it does not wrap to 0
NoWrap ==
    \A r \in DOMAIN vals :
        (Counted(Machine, vals[r]) /\ xs_ref_counter(Machine, vals[r]) = MAX_REF_COUNTER
            /\ vals'[r] = vals[r] /\ Counted(MachineP, vals[r]))
        => xs_ref_counter(MachineP, vals[r]) >= MAX_REF_COUNTER - 1

\* C4 (as stated): the count of a live buffer is never incremented at 255, and
\* assign(dest, src) with src's count 255 leaves the count at 255 and makes
\* dest a deep copy: same bytes and size, another buffer, count 1.
C4_CeilingForcesCopy ==
    [][(last'.op = "copy" => NoWrap) /\ (AtCeiling => DeepCopied)]_vars

\* C4 (amended): the same for a dest that does not already point at src's
\* buffer; a dest that does stays an alias of src, and the count stays 255.
C4_CeilingForcesCopyUnlessAlias ==
    [][/\ last'.op = "copy" => NoWrap
       /\ (AtCeiling /\ ~(xs_is_ptr(vals[last'.a]) /\ vals[last'.a].ptr = vals[last'.b].ptr))
          => DeepCopied
       /\ (AtCeiling /\ xs_is_ptr(vals[last'.a]) /\ vals[last'.a].ptr = vals[last'.b].ptr)
          => /\ vals'[last'.a] = vals[last'.b]
             /\ vals'[last'.b] = vals[last'.b]
             /\ xs_ref_counter(MachineP, vals[last'.b]) = MAX_REF_COUNTER]_vars

\* an assign from a buffer with count 255 has made a deep copy
C4_CopiedAtCeiling ==
    /\ last.op = "copy" /\ Alive
    /\ Counted(Machine, vals[last.b])
    /\ xs_ref_counter(Machine, vals[last.b]) = MAX_REF_COUNTER
    /\ Cardinality(Aliases(Machine, vals[last.b].ptr)) = MAX_REF_COUNTER
    /\ xs_is_ptr(vals[last.a])
    /\ vals[last.a].ptr # vals[last.b].ptr
    /\ Bytes(Machine, vals[last.a]) = Bytes(Machine, vals[last.b])

----------------------------------------------------------------------------
(* Tokenization *)

TokOps == 5

\* "a,,b,c", "", ",a," and "ab," then sixteen "c"
TokLits ==
    {<<97, 44, 44, 98, 44, 99>>, <<>>, <<44, 97, 44>>, <<97, 98, 44>> \o Rep(16, 99)}
\* the delimiter sets: "," and the empty one
TokDelims == {<<44>>, <<>>}

NextTok ==
    \/ \E i \in Slots, p \in TokLits : Within(TokOps) /\ Construct(i, p)
    \/ \E i \in Slots, d \in TokDelims : Within(TokOps) /\ Tok(i, d)
    \/ \E i \in 0..NVals : Within(TokOps) /\ Release(i)
    \/ Within(TokOps) /\ TokNext

SpecTok == Init /\ [][NextTok]_vars

\* the maximal non-empty runs of bytes of b that are not in D, in order
RECURSIVE Runs(_, _, _)
Runs(b, D, run) ==
    IF b = <<>> THEN (IF run = <<>> THEN <<>> ELSE <<run>>)
    ELSE IF InSet(Head(b), D)
         THEN (IF run = <<>> THEN <<>> ELSE <<run>>) \o Runs(Tail(b), D, <<>>)
         ELSE Runs(Tail(b), D, Append(run, Head(b)))
Tokens(b, D) == Runs(b, D, <<>>)

\* C8: for a non-empty delimiter set D, next_token(s, D) and then
\* next_token(null, D) return, in order, the maximal non-empty runs of
\* non-delimiter bytes of s and after them the no-token result.
C8_TokenSequence ==
    (tk.log # <<>> /\ tk.delim # <<>>)
    => \A j \in 1..Len(tk.log) :
         tk.log[j] = IF j <= Len(Tokens(tk.src, tk.delim))
                     THEN Tokens(tk.src, tk.delim)[j] ELSE NoToken

\* C9: a tokenization of a string of n bytes, whatever the delimiter set, has
\* returned the no-token result by its call n + 1: a string of n bytes holds
\* at most n tokens.
C9_TokenizationEnds ==
    Len(tk.log) > Len(tk.src) => \E j \in 1..Len(tk.log) : tk.log[j] = NoToken

----------------------------------------------------------------------------
(* Construction from bytes that hold a zero *)

RoundOps == 1
\* the bytes before and after the zero
MaxRoundHead == 3
MaxRoundTail == 20

\* byte sequences without a zero, and with one zero inside
RoundLits ==
    {Rep(n, 97) : n \in 0..MaxRoundTail}
    \cup {Rep(k, 97) \o <<0>> \o Rep(m, 98) : k \in 0..MaxRoundHead, m \in 1..MaxRoundTail}

NextRound ==
    \/ \E i \in Slots, p \in RoundLits : Within(RoundOps) /\ Construct(i, p)

SpecRound == Init /\ [][NextRound]_vars

\* C11: for every byte sequence b, size(construct(b)) is the length of b and
\* the first size bytes of data(construct(b)) are b, also when b holds zero
\* bytes inside its length.
C11_RoundTrip ==
    (last.op = "new" /\ Alive)
    => /\ xs_size(vals[last.a]) = Len(last.p)
       /\ Bytes(Machine, vals[last.a]) = last.p

----------------------------------------------------------------------------
(* Trimming twice *)

TwiceOps == 4

\* "", ",,a,", ",," and the heap string ",," sixteen "b" ","
TwiceLits == {<<>>, <<44, 44, 97, 44>>, <<44, 44>>, <<44, 44>> \o Rep(16, 98) \o <<44>>}
TwiceSets == {<<>>, <<44>>, <<44, 97>>}

NextTwice ==
    \/ \E i \in Slots, p \in TwiceLits : Within(TwiceOps) /\ Construct(i, p)
    \/ \E d \in Slots, s \in Slots : Within(TwiceOps) /\ Assign(d, s)
    \/ \E i \in Slots, t \in TwiceSets : Within(TwiceOps) /\ Trim(i, t)

SpecTwice == Init /\ [][NextTwice]_vars

----------------------------------------------------------------------------
(* Allocation failure *)

ScarceOps == 3

\* "a", and the heap string of sixteen "a"
ScarceLits == {<<97>>, Rep(16, 97)}
\* a request of xs_grow above every capacity of the run
ScarceLen == 40

\* the process is short of memory: the allocator has one buffer left to hand
\* out, the others are held by the rest of the program
InitScarce ==
    /\ vals = [i \in 0..NVals |-> xs_literal_empty]
    /\ heap = [a \in Addrs |-> IF a = 1 THEN [st |-> "none", mem |-> <<>>]
                                        ELSE [st |-> "live", mem |-> <<0, 0>>]]
    /\ old = FALSE
    /\ oldv = xs_literal_empty
    /\ packed \in BOOLEAN
    /\ ub = {}
    /\ fault = "none"
    /\ last = [op |-> "init", a |-> 0, b |-> 0, p |-> <<>>, q |-> <<>>, n |-> 0, rep |-> 1]
    /\ tk = [src |-> <<>>, delim |-> <<>>, log |-> <<>>]

NextScarce ==
    \/ \E i \in Slots, p \in ScarceLits : Within(ScarceOps) /\ Construct(i, p)
    \/ \E d \in Slots, s \in Slots : Within(ScarceOps) /\ Assign(d, s)
    \/ \E i \in Slots : Within(ScarceOps) /\ Grow(i, ScarceLen)
    \/ \E i \in Slots, q \in ScarceLits : Within(ScarceOps) /\ Concat(i, <<>>, q)
    \/ \E i \in Slots : Within(ScarceOps) /\ EnsureExclusive(i)

SpecScarce == InitScarce /\ [][NextScarce]_vars

\* the bytes the call last' asks malloc for when it is made in the current
\* state on an inline value, 0 if it asks for none
Wanted ==
    LET x == vals[last'.a]
        total == xs_size(x) + Len(last'.p) + Len(last'.q)
    IN  CASE last'.op = "new" ->
               IF Len(last'.p) >= 16 THEN 2 ^ CapClass(Len(last'.p) + 1) ELSE 0
          [] last'.op = "grow" ->
               IF ~xs_is_ptr(x) /\ last'.b > 15 THEN 2 ^ CapClass(last'.b) ELSE 0
          [] last'.op = "concat" ->
               IF ~xs_is_ptr(x) /\ total > 15 THEN 2 ^ CapClass(total) ELSE 0
          [] OTHER -> 0

\* C13: a construct, grow or concat whose allocation fails goes through no
\* null pointer and leaves every string value and every buffer, reference
\* counts included, as they were.
C13_FailedAllocationKeepsState ==
    [][(Wanted > 0 /\ \A m \in Malloc(Machine, Wanted) : m.x = 0)
       => (fault' = "none" /\ vals' = vals /\ heap' = heap)]_vars

----------------------------------------------------------------------------
(* Growth *)

GrowOps == 3

\* "a", ten "a", and the heap string of forty "a" (capacity 63)
GrowLits == {<<97>>, Rep(10, 97), Rep(40, 97)}
\* requested lengths: below and above the capacities 15 and 63
GrowLens == {10, 20, 100}
\* and the length 2^32 + 20
WideHi == 1
WideLo == 20

NextGrow ==
    \/ \E i \in Slots, p \in GrowLits : Within(GrowOps) /\ Construct(i, p)
    \/ \E i \in Slots, n \in GrowLens : Within(GrowOps) /\ Grow(i, n)
    \/ \E i \in Slots : Within(GrowOps) /\ GrowWide(i, WideHi, WideLo)

SpecGrow == Init /\ [][NextGrow]_vars

\* the length a grow call was given, as <<hi, lo>>
Requested(c) == IF c.p = <<>> THEN SizeT(c.b) ELSE <<c.p[1], c.b>>

\* C14: after grow(x, n) capacity(x) >= n and capacity(x) is not below what
\* it was; grow(x, n) with n <= capacity(x) changes no value and no buffer.
C14_GrowthMonotone ==
    [][(last'.op = "grow" /\ fault' = "none")
       => LET x == vals[last'.a]
              y == vals'[last'.a]
              n == Requested(last')
          IN  /\ AtMost(n, xs_capacity(y))
              /\ xs_capacity(y) >= xs_capacity(x)
              /\ AtMost(n, xs_capacity(x)) => (vals' = vals /\ heap' = heap)]_vars

\* the same for the requested lengths below 2^32
C14_GrowthMonotoneNarrow ==
    [][(last'.op = "grow" /\ last'.p = <<>> /\ fault' = "none")
       => LET x == vals[last'.a]
              y == vals'[last'.a]
          IN  /\ xs_capacity(y) >= last'.b
              /\ xs_capacity(y) >= xs_capacity(x)
              /\ last'.b <= xs_capacity(x) => (vals' = vals /\ heap' = heap)]_vars

----------------------------------------------------------------------------
(* The owner after a concatenation *)

OwnOps == 4

\* "abc", and a heap string of 30 bytes (capacity 31)
OwnLits == {<<97, 98, 99>>, Rep(30, 97)}
\* prefix and suffix: "" and "b" (30 + 1 fills the capacity), "b" and sixteen "c"
OwnAffixes == {<<<<>>, <<98>>>>, <<<<98>>, Rep(16, 99)>>}

NextOwn ==
    \/ \E i \in Slots, p \in OwnLits : Within(OwnOps) /\ Construct(i, p)
    \/ \E d \in Slots, s \in Slots : Within(OwnOps) /\ Assign(d, s)
    \/ \E i \in Slots, f \in OwnAffixes : Within(OwnOps) /\ Concat(i, f[1], f[2])

SpecOwn == Init /\ [][NextOwn]_vars

\* the byte xs_ref_counter(x) reads for a heap value of state S is n
CountReads(S, x, n) ==
    /\ x.ptr \in Addrs
    /\ S.heap[x.ptr].st = "live"
    /\ Loc(S, x.ptr, x.size + 1)[1] # 0
    /\ xs_ref_counter(S, x) = n

\* the state a concat call starts in is one the claim names: s is inline, or
\* heap with a live buffer whose count is the number of values that hold it
StartsOwnedOrShared ==
    LET x == vals[last'.a]
    IN  xs_is_ptr(x) => CountReads(Machine, x, Cardinality(Aliases(Machine, x.ptr)))

\* what the step of a concat call has to leave
ConcatOwns ==
    LET x == vals[last'.a]
        y == vals'[last'.a]
        others == IF xs_is_ptr(x) THEN Aliases(Machine, x.ptr) \ {last'.a} ELSE {}
    IN  /\ xs_is_ptr(y)
           => /\ CountReads(MachineP, y, 1)
              /\ Aliases(MachineP, y.ptr) = {last'.a}
        /\ \A j \in others :
              CountReads(Machine, vals[j], Cardinality(others) + 1)
              => CountReads(MachineP, vals'[j], Cardinality(others))

\* C15: when concat(s, prefix, suffix) has returned, a heap s has the count 1
\* and its buffer no other value; a buffer s shared with other values before
\* the call has its count one lower.
C15_ConcatOwns ==
    [][(last'.op = "concat" /\ fault' = "none" /\ StartsOwnedOrShared) => ConcatOwns]_vars

\* a concat on a string shared by two values has returned: the string is heap
\* and the other value still holds the buffer they shared
C15_ConcatOnShared ==
    /\ last.op = "concat" /\ Alive /\ last.a = 1
    /\ xs_is_ptr(vals[1]) /\ xs_is_ptr(vals[2])
    /\ vals[1].ptr # vals[2].ptr
    /\ Bytes(Machine, vals[1]) = Bytes(Machine, vals[2]) \o last.q
    /\ last.q # <<>>

----------------------------------------------------------------------------
(* Well-formed values *)

FormOps == 3

NextForm ==
    \/ \E i \in Slots, p \in Lits : Within(FormOps) /\ Construct(i, p)
    \/ \E d \in Slots, s \in Slots : Within(FormOps) /\ Assign(d, s)
    \/ \E i \in Slots : Within(FormOps) /\ Grow(i, ScarceLen)
    \/ \E i \in Slots : Within(FormOps) /\ Concat(i, <<>>, <<98>>)
    \/ \E i \in Slots, t \in Delims : Within(FormOps) /\ Trim(i, t)
    \/ \E i \in Slots, d \in Delims : Within(FormOps) /\ Tok(i, d)
    \/ Within(FormOps) /\ TokNext

SpecForm == Init /\ [][NextForm]_vars

\* the value x of state S is well formed
WellFormed(S, x) ==
    /\ xs_size(x) <= xs_capacity(x)
    /\ IF xs_is_ptr(x)
       THEN /\ x.ptr \in Addrs
            /\ x.size < AllocLen(S, x.ptr)
            /\ S.heap[x.ptr].mem[x.size + 1] = 0
            /\ \E c \in 0..63 : x.capacity = c /\ xs_capacity(x) = (2 ^ c) - 1
       ELSE /\ xs_size(x) = 15 - x.space_left
            /\ xs_size(x) <= 15
            /\ Raw(x)[xs_size(x) + 1] = 0

\* C16: after any sequence of construct, assign, grow, concat, trim and
\* next_token calls every string value has size <= capacity and a zero byte at
\* data[size]; an inline value has size = 15 - free space <= 15, a heap value
\* the capacity 2^class - 1.
C16_WellFormedValues ==
    Alive => \A i \in Slots : WellFormed(Machine, vals[i])

----------------------------------------------------------------------------
(* The place of the reference count *)

\* C17: the reference count of every heap string, the byte at index size + 1
\* of its buffer, lies inside the allocation: size + 1 is below the number of
\* bytes allocated.
C17_CounterInsideBuffer ==
    Alive => \A i \in Slots :
               LET x == vals[i]
               IN  (xs_is_ptr(x) /\ x.ptr \in Addrs /\ heap[x.ptr].st = "live")
                   => x.size + 1 < AllocLen(Machine, x.ptr)

----------------------------------------------------------------------------
(* What a growth keeps *)

\* x, of state S, is inline or a heap value that alone holds its live buffer,
\* the count 1
InlineOrExclusive(S, r) ==
    LET x == Get(S, r)
    IN  xs_is_ptr(x) => /\ Counted(S, x)
                        /\ xs_ref_counter(S, x) = 1
                        /\ Aliases(S, x.ptr) = {r}

\* the size bytes of x and the terminator after them
WithTerminator(S, x) ==
    IF ~xs_is_ptr(x) THEN SubSeq(Raw(x), 1, xs_size(x) + 1)
    ELSE IF x.ptr = 0 \/ x.size >= AllocLen(S, x.ptr) THEN <<POISON>>
    ELSE SubSeq(S.heap[x.ptr].mem, 1, x.size + 1)

\* C18: for x inline or exclusively owned heap and n > capacity(x), n below
\* 2^32, grow(x, n) leaves x heap, with the size it had and with the bytes and
\* the terminator it had.
C18_GrowKeepsContent ==
    [][(/\ last'.op = "grow" /\ last'.p = <<>> /\ fault' = "none"
        /\ last'.b > xs_capacity(vals[last'.a])
        /\ InlineOrExclusive(Machine, last'.a))
       => LET x == vals[last'.a]
              y == vals'[last'.a]
          IN  /\ xs_is_ptr(y)
              /\ xs_size(y) = xs_size(x)
              /\ WithTerminator(MachineP, y) = WithTerminator(Machine, x)]_vars

----------------------------------------------------------------------------
(* The layout of a heap value *)

LayoutOps == 4

\* "a" and sixteen ",": heap, one byte after a trim or a tokenization
LayoutLits == {<<97>> \o Rep(16, 44)}

NextLayout ==
    \/ \E i \in Slots, p \in LayoutLits : Within(LayoutOps) /\ Construct(i, p)
    \/ \E d \in Slots, s \in Slots : Within(LayoutOps) /\ Assign(d, s)
    \/ \E i \in Slots : Within(LayoutOps) /\ Grow(i, ScarceLen)
    \/ \E i \in Slots : Within(LayoutOps) /\ Concat(i, <<>>, <<98>>)
    \/ \E i \in Slots, t \in Delims : Within(LayoutOps) /\ Trim(i, t)
    \/ \E i \in Slots, d \in Delims : Within(LayoutOps) /\ Tok(i, d)
    \/ \E i \in Slots : Within(LayoutOps) /\ EnsureExclusive(i)

SpecLayout == Init /\ [][NextLayout]_vars

\* C19: a grow, concat, trim, next_token or ensure_exclusive call on a value
\* in heap layout leaves it in heap layout.
C19_HeapStaysHeap ==
    [][(/\ last'.op \in {"grow", "concat", "trim", "tok", "cow"}
        /\ last'.a \in Slots
        /\ fault' = "none"
        /\ xs_is_ptr(vals[last'.a]))
       => xs_is_ptr(vals'[last'.a])]_vars

----------------------------------------------------------------------------
(* The remainder the tokenizer keeps *)

\* the call of this step put another remainder in the place of one that held
\* the live heap buffer oldv.ptr, and went through no undefined behaviour
RemainderSuperseded ==
    /\ last'.op = "tok" /\ fault' = "none" /\ ub' = {}
    /\ old /\ old'
    /\ xs_is_ptr(oldv) /\ oldv.ptr \in Addrs /\ heap[oldv.ptr].st = "live"
    /\ (xs_is_ptr(oldv') => oldv'.ptr # oldv.ptr)
    \* the new content is the call's, not what other frames left in the slot
    /\ last'.p # <<>> /\ oldv' \notin StaleSlot

\* C20: when a next_token call puts a new remainder in the place of the
\* retained one, the heap buffer of the previous remainder is freed if no
\* string value holds it, and has its count one lower otherwise.
C20_RemainderReleased ==
    [][RemainderSuperseded
       => LET others == Aliases(Machine, oldv.ptr) \ {OLD}
          IN  IF others = {}
              THEN heap'[oldv.ptr].st = "free"
              ELSE \A j \in others :
                     (vals'[j] = vals[j] /\ Counted(Machine, vals[j]))
                     => xs_ref_counter(MachineP, vals'[j]) = xs_ref_counter(Machine, vals[j]) - 1]_vars

====
